---- MODULE Spec2Model ----
(***************************************************************************)
(* Heimdall: persistence and defaulting of the two JSON-backed documents   *)
(* (application configuration, Tor proxy pool), the command line that      *)
(* reaches them, and concurrent invocations on one backing file.           *)
(*                                                                         *)
(* Python values are tagged records (field t names the Python type), JSON  *)
(* text is a separate tagged encoding (field j), and a filesystem path is  *)
(* the sequence of its components, so that Path(str), json.dump and        *)
(* json.load are conversions that can fail or change a value.              *)
(***************************************************************************)
EXTENDS Integers, Sequences, FiniteSets, TLC

VARIABLES
    env,        \* os.environ: a function from the names that are set to strings
    files,      \* the filesystem: a function from the paths of regular files to text
    dirs,       \* the directories that exist
    config,     \* Config._config of the most recently constructed Config
    data,       \* TorManager._data of the most recently constructed TorManager
    exc,        \* the exception the most recent constructor let propagate
    echoed,     \* the lines the most recent constructor printed
    hist,       \* one record per completed load, oldest first
    rtIn,       \* the value handed to a serialise/deserialise round trip
    rtOut,      \* what the round trip produced
    pc,         \* position of one command-line invocation
    cli,        \* the parsed command line of that invocation
    exit_code,  \* the status the command-line invocation exited with
    ppc,        \* per concurrent invocation: its position in the load
    pstore,     \* per concurrent invocation: the store it ends holding
    pkind       \* which store the concurrent invocations load

vars == <<env, files, dirs, config, data, exc, echoed, hist, rtIn, rtOut,
          pc, cli, exit_code, ppc, pstore, pkind>>

-----------------------------------------------------------------------------
(* Bounds of the model.                                                    *)

\* loads performed in one run
MaxLoads == 2
\* entries in a proxy pool
MaxProxies == 2

-----------------------------------------------------------------------------
(* Python values.                                                          *)

PyNone == [t |-> "NoneType"]
PyInt(n) == [t |-> "int", n |-> n]
PyBool(b) == [t |-> "bool", b |-> b]
PyStr(s) == [t |-> "str", s |-> s]
PyPath(parts) == [t |-> "Path", parts |-> parts]
PyList(items) == [t |-> "list", items |-> items]
PyDict(items) == [t |-> "dict", items |-> items]

\* an instance attribute that was annotated on the class but never assigned
Unset == [t |-> "<unset>"]
\* a raised exception, as a value
Raised(name) == [t |-> "<raised>", name |-> name]
NoException == "none"

IsRaised(v) == v.t = "<raised>"

-----------------------------------------------------------------------------
(* pathlib.                                                                *)

HomeDir == <<"/", "home", "user">>

\* Path(s): the components of the path a string spells. Path("") is Path("."),
\* the path with no components.
PathFromStr(s) ==
    CASE s = "" -> <<>>
      [] s = "~/.config" -> <<"~", ".config">>
      [] s = "~/.local/share" -> <<"~", ".local", "share">>
      [] s = "/tmp/xdgtest" -> <<"/", "tmp", "xdgtest">>
      [] s = "/tmp/xdgdata" -> <<"/", "tmp", "xdgdata">>
      [] s = "/etc/heimdall.json" -> <<"/", "etc", "heimdall.json">>
      [] s = "/nope/heimdall.json" -> <<"/", "nope", "heimdall.json">>
      [] s = "/srv/tor/pool.json" -> <<"/", "srv", "tor", "pool.json">>
      [] s = "/var/lib/tor/a" -> <<"/", "var", "lib", "tor", "a">>
      [] s = "/var/lib/tor/b" -> <<"/", "var", "lib", "tor", "b">>
      [] s = "heimdall/tor_proxy.json" -> <<"heimdall", "tor_proxy.json">>
      [] OTHER -> <<s>>

\* Path.expanduser()
ExpandUser(p) ==
    IF Len(p) > 0 /\ p[1] = "~" THEN HomeDir \o SubSeq(p, 2, Len(p)) ELSE p

\* Path.parent
Parent(p) == IF Len(p) > 1 THEN SubSeq(p, 1, Len(p) - 1) ELSE p

\* the path itself and every ancestor of it
Ancestors(p) == {SubSeq(p, 1, n) : n \in 0..Len(p)}

\* os.environ.get(name, default)
EnvGet(e, name, default) == IF name \in DOMAIN e THEN e[name] ELSE default

-----------------------------------------------------------------------------
(* JSON text. A file holds either the encoding of a JSON value or text     *)
(* that no JSON parser accepts.                                            *)

JNull == [j |-> "null"]
JNumber(n) == [j |-> "number", n |-> n]
JBool(b) == [j |-> "bool", b |-> b]
JString(s) == [j |-> "string", s |-> s]
JArray(items) == [j |-> "array", items |-> items]
JObject(members) == [j |-> "object", members |-> members]

JsonText(v) == [t |-> "<text>", json |-> TRUE, v |-> v]
RawText(s) == [t |-> "<text>", json |-> FALSE, s |-> s]
EmptyText == RawText("")
NotJson == RawText("{not json")

\* whether json.dump accepts the value: None, int, bool, str, list and dict do,
\* a Path or a dataclass instance raises TypeError
RECURSIVE Serializable(_)
Serializable(v) ==
    CASE v.t \in {"NoneType", "int", "bool", "str"} -> TRUE
      [] v.t = "list" -> \A i \in 1..Len(v.items) : Serializable(v.items[i])
      [] v.t = "dict" -> \A k \in DOMAIN v.items : Serializable(v.items[k])
      [] OTHER -> FALSE

RECURSIVE Encode(_)
Encode(v) ==
    CASE v.t = "NoneType" -> JNull
      [] v.t = "int" -> JNumber(v.n)
      [] v.t = "bool" -> JBool(v.b)
      [] v.t = "str" -> JString(v.s)
      [] v.t = "list" -> JArray([i \in 1..Len(v.items) |-> Encode(v.items[i])])
      [] v.t = "dict" -> JObject([k \in DOMAIN v.items |-> Encode(v.items[k])])

RECURSIVE Decode(_)
Decode(jv) ==
    CASE jv.j = "null" -> PyNone
      [] jv.j = "number" -> PyInt(jv.n)
      [] jv.j = "bool" -> PyBool(jv.b)
      [] jv.j = "string" -> PyStr(jv.s)
      [] jv.j = "array" -> PyList([i \in 1..Len(jv.items) |-> Decode(jv.items[i])])
      [] jv.j = "object" -> PyDict([k \in DOMAIN jv.members |-> Decode(jv.members[k])])

\* json.dump(obj, f): the text written, or TypeError
JsonDump(obj) ==
    IF Serializable(obj) THEN JsonText(Encode(obj)) ELSE Raised("TypeError")

\* json.load(f): the decoded value, or JSONDecodeError
JsonLoad(text) ==
    IF text.json THEN Decode(text.v) ELSE Raised("JSONDecodeError")

-----------------------------------------------------------------------------
(* config.py: ConfigData.                                                  *)

DefaultCountParsers == 6
DefaultCountTorProxy == 6

ConfigData(tor_data_path, count_parsers, count_tor_proxy, save_results) ==
    [t |-> "ConfigData", tor_data_path |-> tor_data_path,
     count_parsers |-> count_parsers, count_tor_proxy |-> count_tor_proxy,
     save_results |-> save_results]

\* ConfigData(): every field at its declared default
ConfigDataDefault ==
    ConfigData(PyNone, PyInt(DefaultCountParsers), PyInt(DefaultCountTorProxy),
               PyBool(FALSE))

\* config.__dict__
ConfigDataDict(c) ==
    PyDict([k \in {"tor_data_path", "count_parsers", "count_tor_proxy", "save_results"}
              |-> c[k]])

\* Path(os.environ.get("XDG_DATA_HOME", "~/.local/share")).expanduser()
\*   / "heimdall/tor_proxy.json"
DefaultTorDataPath(e) ==
    ExpandUser(PathFromStr(EnvGet(e, "XDG_DATA_HOME", "~/.local/share")))
        \o PathFromStr("heimdall/tor_proxy.json")

ConfigKeys == {"tor_data_path", "count_parsers", "count_tor_proxy", "save_results"}

\* ConfigData.from_dict(data), under environment e: the instance, or the
\* exception raised
ConfigFromDict(e, d) ==
    IF d.t # "dict" THEN Raised("TypeError")
    ELSE IF ~(ConfigKeys \subseteq DOMAIN d.items) THEN Raised("KeyError")
    ELSE IF d.items["tor_data_path"].t \notin {"NoneType", "str"} THEN Raised("TypeError")
    ELSE ConfigData(
             IF d.items["tor_data_path"].t = "NoneType"
             THEN PyPath(DefaultTorDataPath(e))
             ELSE PyPath(PathFromStr(d.items["tor_data_path"].s)),
             d.items["count_parsers"],
             d.items["count_tor_proxy"],
             d.items["save_results"])

-----------------------------------------------------------------------------
(* config.py: Config.                                                      *)

\* Path(os.environ.get("XDG_CONFIG_HOME", "~/.config")).expanduser() / "heimdall"
ConfigDir(e) ==
    ExpandUser(PathFromStr(EnvGet(e, "XDG_CONFIG_HOME", "~/.config"))) \o <<"heimdall">>

\* config_dir / "config.json"
ConfigFile(e) == ConfigDir(e) \o <<"config.json">>

\* Path.exists()
Exists(fs, ds, p) == p \in DOMAIN fs \/ p \in ds

\* Path.mkdir(parents=True, exist_ok=True)
Mkdir(ds, p) == ds \cup Ancestors(p)

\* open(p, "w+"), write of the whole text, close
WriteFile(fs, p, text) == [q \in DOMAIN fs \cup {p} |-> IF q = p THEN text ELSE fs[q]]

\* verbose_echo(verbose, message)
VerboseEcho(verbose, message) == IF verbose THEN <<"[VERBOSE] " \o message>> ELSE <<>>

ParseErrorLine ==
    "Error parsing json configuration (use the '--verbose' flag for more details)"

\* Config._generate_config(): the filesystem afterwards, the value returned
\* and the lines printed
GenerateConfig(e, fs, ds, verbose) ==
    [files |-> WriteFile(fs, ConfigFile(e), JsonDump(ConfigDataDict(ConfigDataDefault))),
     dirs |-> Mkdir(ds, ConfigDir(e)),
     value |-> ConfigDataDefault,
     wrote |-> {ConfigFile(e)},
     echoed |-> VerboseEcho(verbose,
                    "Generating a configuration file with standard parameters")]

\* the try/except around ConfigData.from_dict(json.load(cf)): JSONDecodeError is
\* caught and reported, self._config is not assigned; any other exception
\* leaves the constructor
ReadConfig(e, fs, ds, p, verbose) ==
    LET loaded == JsonLoad(fs[p])
        made == IF IsRaised(loaded) THEN loaded ELSE ConfigFromDict(e, loaded)
    IN  IF IsRaised(made) /\ made.name = "JSONDecodeError"
        THEN [files |-> fs, dirs |-> ds, config |-> Unset, exc |-> NoException,
              wrote |-> {},
              echoed |-> <<ParseErrorLine>> \o VerboseEcho(verbose, "JSONDecodeError")]
        ELSE IF IsRaised(made)
        THEN [files |-> fs, dirs |-> ds, config |-> Unset, exc |-> made.name,
              wrote |-> {}, echoed |-> <<>>]
        ELSE [files |-> fs, dirs |-> ds, config |-> made, exc |-> NoException,
              wrote |-> {}, echoed |-> <<>>]

\* the branch of _load_config taken when the file is missing
MissingConfig(e, fs, ds, verbose) ==
    LET g == GenerateConfig(e, fs, ds, verbose)
    IN  [files |-> g.files, dirs |-> g.dirs, config |-> g.value, exc |-> NoException,
         wrote |-> g.wrote,
         echoed |-> VerboseEcho(verbose, "Config file not found") \o g.echoed]

\* Config._load_config(config_path) on a freshly constructed Config
LoadConfig(e, fs, ds, config_path, verbose) ==
    IF config_path = PyNone
    THEN IF ~Exists(fs, ds, ConfigDir(e) \o <<"config.json">>)
         THEN MissingConfig(e, fs, ds, verbose)
         ELSE ReadConfig(e, fs, ds, ConfigDir(e) \o <<"config.json">>, verbose)
    ELSE IF ~Exists(fs, ds, PathFromStr(config_path.s))
         THEN MissingConfig(e, fs, ds, verbose)
         ELSE ReadConfig(e, fs, ds, PathFromStr(config_path.s), verbose)

-----------------------------------------------------------------------------
(* tor_proxy.py: TorProxyData, TorData, TorManager.                        *)

TorProxyData(port, control_port, dir_path) ==
    [t |-> "TorProxyData", port |-> port, control_port |-> control_port,
     dir_path |-> dir_path]

\* TorProxyData.to_dict(): the three attributes as they are
TorProxyToDict(p) ==
    PyDict([k \in {"port", "control_port", "dir_path"} |-> p[k]])

\* TorProxyData.from_dict(data)
TorProxyFromDict(d) ==
    IF d.t # "dict" THEN Raised("TypeError")
    ELSE IF ~({"port", "control_port", "dir_path"} \subseteq DOMAIN d.items)
    THEN Raised("KeyError")
    ELSE IF d.items["dir_path"].t \notin {"str", "Path"} THEN Raised("TypeError")
    ELSE TorProxyData(d.items["port"], d.items["control_port"],
                      IF d.items["dir_path"].t = "str"
                      THEN PyPath(PathFromStr(d.items["dir_path"].s))
                      ELSE d.items["dir_path"])

TorData(proxies) == [t |-> "TorData", proxies |-> proxies]

\* TorData(): the empty pool
TorDataDefault == TorData(PyList(<<>>))

\* TorData.to_dict()
TorDataToDict(td) ==
    PyDict([k \in {"proxies"} |->
              PyList([i \in 1..Len(td.proxies.items) |->
                        TorProxyToDict(td.proxies.items[i])])])

\* TorData.from_dict(data): the decoded list is handed to the constructor as it is
TorDataFromDict(d) ==
    IF d.t # "dict" THEN Raised("TypeError")
    ELSE IF "proxies" \notin DOMAIN d.items THEN Raised("KeyError")
    ELSE TorData(d.items["proxies"])

NotFoundLine == "The tor proxy data file was not found"

\* _generate_data persisting at the default data location instead of path
GenerateDataAtDefaultLocation(fs, ds, path) ==
    [files |-> WriteFile(fs, DefaultTorDataPath(env),
                         JsonDump(TorDataToDict(TorDataDefault))),
     dirs |-> Mkdir(ds, Parent(DefaultTorDataPath(env))),
     value |-> TorDataDefault,
     wrote |-> {DefaultTorDataPath(env)}]

\* TorManager._generate_data(path)
GenerateData(fs, ds, path) ==
    [files |-> WriteFile(fs, path, JsonDump(TorDataToDict(TorDataDefault))),
     dirs |-> Mkdir(ds, Parent(path)),
     value |-> TorDataDefault,
     wrote |-> {path}]

\* TorManager._load_data(data_path) on a freshly constructed TorManager
LoadData(fs, ds, data_path, verbose) ==
    IF ~Exists(fs, ds, data_path)
    THEN LET g == GenerateData(fs, ds, data_path)
         IN  [files |-> g.files, dirs |-> g.dirs, data |-> g.value,
              exc |-> NoException, wrote |-> g.wrote,
              echoed |-> <<NotFoundLine>> \o
                  VerboseEcho(verbose,
                      "Generating a standard file with data about the tor proxy")]
    ELSE LET loaded == JsonLoad(fs[data_path])
             made == IF IsRaised(loaded) THEN loaded ELSE TorDataFromDict(loaded)
         IN  IF IsRaised(made) /\ made.name = "JSONDecodeError"
             THEN [files |-> fs, dirs |-> ds, data |-> Unset, exc |-> NoException,
                   wrote |-> {},
                   echoed |-> <<ParseErrorLine>> \o VerboseEcho(verbose, "JSONDecodeError")]
             ELSE IF IsRaised(made)
             THEN [files |-> fs, dirs |-> ds, data |-> Unset, exc |-> made.name,
                   wrote |-> {}, echoed |-> <<>>]
             ELSE [files |-> fs, dirs |-> ds, data |-> made, exc |-> NoException,
                   wrote |-> {}, echoed |-> <<>>]

-----------------------------------------------------------------------------
(* The environments, file contents and arguments the model explores.       *)

EnvChoices ==
    {e \in UNION {[S -> {"", "/tmp/xdgtest", "/tmp/xdgdata"}] :
                    S \in SUBSET {"XDG_CONFIG_HOME", "XDG_DATA_HOME"}} :
        /\ "XDG_CONFIG_HOME" \in DOMAIN e => e["XDG_CONFIG_HOME"] \in {"", "/tmp/xdgtest"}
        /\ "XDG_DATA_HOME" \in DOMAIN e => e["XDG_DATA_HOME"] = "/tmp/xdgdata"}

HomeConfigFile == HomeDir \o <<".config", "heimdall", "config.json">>
XdgConfigFile == <<"/", "tmp", "xdgtest", "heimdall", "config.json">>
CwdConfigFile == <<"heimdall", "config.json">>
CandidateConfigFiles == {HomeConfigFile, XdgConfigFile, CwdConfigFile}

ExistingConfigArg == PyStr("/etc/heimdall.json")
MissingConfigArg == PyStr("/nope/heimdall.json")
ConfigArgs == {PyNone, ExistingConfigArg, MissingConfigArg}

PoolFile == PathFromStr("/srv/tor/pool.json")
FreshPoolFile == <<"/", "srv", "new", "tor", "pool.json">>
TorArgs == {PoolFile, FreshPoolFile}

\* a configuration document as an editor or an earlier run left it
ConfigDoc(path, parsers, proxies, save) ==
    JsonText(JObject([k \in ConfigKeys |->
        CASE k = "tor_data_path" -> path
          [] k = "count_parsers" -> JNumber(parsers)
          [] k = "count_tor_proxy" -> JNumber(proxies)
          [] k = "save_results" -> JBool(save)]))

ConfigContents ==
    {NotJson,
     ConfigDoc(JNull, 6, 6, FALSE),
     ConfigDoc(JString("/srv/tor/pool.json"), 2, 3, TRUE)}

ProxyDoc(port, control_port, dir_path) ==
    JObject([k \in {"port", "control_port", "dir_path"} |->
        CASE k = "port" -> JNumber(port)
          [] k = "control_port" -> JNumber(control_port)
          [] k = "dir_path" -> JString(dir_path)])

PoolContents ==
    {NotJson,
     JsonText(JObject([k \in {"proxies"} |->
        JArray(<<ProxyDoc(9050, 9051, "/var/lib/tor/a"),
                 ProxyDoc(9150, 9151, "/var/lib/tor/b")>>)]))}

\* the filesystems a run can start from: at most one of the candidate default
\* configuration files, the file --config names, and possibly a pool file
InitialFiles ==
    LET base == {[q \in {PathFromStr(ExistingConfigArg.s)} |-> c] :
                    c \in ConfigContents \ {ConfigDoc(JNull, 6, 6, FALSE)}}
        withCfg(fs) == {fs} \cup
            {WriteFile(fs, q, c) : q \in CandidateConfigFiles, c \in ConfigContents}
        withPool(fs) == {fs} \cup {WriteFile(fs, PoolFile, c) : c \in PoolContents}
    IN  UNION {UNION {withPool(g) : g \in withCfg(fs)} : fs \in base}

\* every directory on the way to a file exists
DirsOf(fs) == UNION {Ancestors(Parent(q)) : q \in DOMAIN fs} \cup Ancestors(HomeDir)

-----------------------------------------------------------------------------
(* Specification Spec: one run that constructs Config and TorManager       *)
(* objects one after the other.                                            *)

Idle == "idle"
NoProcs == <<>>

\* the variables of the round trip, the command line and the concurrent loads
othersIdle ==
    /\ rtIn = Unset /\ rtOut = Unset
    /\ pc = Idle /\ cli = Unset /\ exit_code = PyNone
    /\ ppc = NoProcs /\ pstore = NoProcs /\ pkind = Idle

Init ==
    /\ env \in EnvChoices
    /\ files \in InitialFiles
    /\ dirs = DirsOf(files)
    /\ config = Unset /\ data = Unset
    /\ exc = NoException /\ echoed = <<>>
    /\ hist = <<>>
    /\ othersIdle

\* Config(config_path, verbose)
NewConfig(config_path, verbose) ==
    /\ Len(hist) < MaxLoads
    /\ LET r == LoadConfig(env, files, dirs, config_path, verbose)
       IN  /\ files' = r.files
           /\ dirs' = r.dirs
           /\ config' = r.config
           /\ exc' = r.exc
           /\ echoed' = r.echoed
           /\ hist' = Append(hist, [kind |-> "Config", arg |-> config_path,
                                    before |-> files, after |-> r.files,
                                    wrote |-> r.wrote, value |-> r.config,
                                    exc |-> r.exc])
    /\ UNCHANGED <<env, data, rtIn, rtOut, pc, cli, exit_code, ppc, pstore, pkind>>

\* TorManager(data_path, verbose)
NewTorManager(data_path, verbose) ==
    /\ Len(hist) < MaxLoads
    /\ LET r == LoadData(files, dirs, data_path, verbose)
       IN  /\ files' = r.files
           /\ dirs' = r.dirs
           /\ data' = r.data
           /\ exc' = r.exc
           /\ echoed' = r.echoed
           /\ hist' = Append(hist, [kind |-> "TorManager", arg |-> PyPath(data_path),
                                    before |-> files, after |-> r.files,
                                    wrote |-> r.wrote, value |-> r.data,
                                    exc |-> r.exc])
    /\ UNCHANGED <<env, config, rtIn, rtOut, pc, cli, exit_code, ppc, pstore, pkind>>

Next ==
    \/ \E config_path \in ConfigArgs, verbose \in BOOLEAN : NewConfig(config_path, verbose)
    \/ \E data_path \in TorArgs, verbose \in BOOLEAN : NewTorManager(data_path, verbose)

Spec == Init /\ [][Next]_vars

-----------------------------------------------------------------------------
(* What the specification document states, written without the code's      *)
(* operators.                                                              *)

\* "value of the variable if set and non-empty, else the fallback"
DocBase(e, name, fallback) ==
    IF name \in DOMAIN e /\ e[name] # "" THEN PathFromStr(e[name]) ELSE fallback

DocConfigFile(e) ==
    DocBase(e, "XDG_CONFIG_HOME", HomeDir \o <<".config">>) \o <<"heimdall", "config.json">>

DocTorDataPath(e) ==
    DocBase(e, "XDG_DATA_HOME", HomeDir \o <<".local", "share">>)
        \o <<"heimdall", "tor_proxy.json">>

\* the document {"proxies": []}
DocEmptyPoolText == JsonText(JObject([k \in {"proxies"} |-> JArray(<<>>)]))

Loads == {hist[i] : i \in 1..Len(hist)}

\* the file a completed load was backed by
BackingFile(h) ==
    IF h.kind = "TorManager" THEN h.arg.parts
    ELSE IF h.arg = PyNone THEN ConfigFile(env) ELSE PathFromStr(h.arg.s)

Malformed(h) == BackingFile(h) \in DOMAIN h.before /\ ~h.before[BackingFile(h)].json

-----------------------------------------------------------------------------
(* Claims checked under Spec.                                              *)

\* C1: a load whose backing file exists but holds no parseable JSON ends in an
\* explicit failure surfaced to the caller, and after no completed load does the
\* store hold neither a value nor an error.
C1_MalformedIsExplicitFailure ==
    \A h \in Loads :
        /\ Malformed(h) => h.exc # NoException
        /\ ~(h.value = Unset /\ h.exc = NoException)

\* C2: a load with no explicit path and no default file creates the file and
\* returns count_parsers=6, count_tor_proxy=6, save_results=false and
\* tor_data_path = <data-base>/heimdall/tor_proxy.json, not None.
C2_DefaultsOnFirstLoad ==
    \A h \in Loads :
        (h.kind = "Config" /\ h.arg = PyNone /\ ConfigFile(env) \notin DOMAIN h.before) =>
            /\ ConfigFile(env) \in DOMAIN h.after
            /\ Ancestors(Parent(ConfigFile(env))) \subseteq dirs
            /\ h.value = ConfigData(PyPath(DocTorDataPath(env)), PyInt(6), PyInt(6),
                                    PyBool(FALSE))

\* C3: after a first load generated the default file, a second load in the same
\* run returns a value equal field for field to the first one's and writes nothing.
C3_SecondLoadIdentical ==
    (/\ Len(hist) = 2
     /\ hist[1].kind = "Config" /\ hist[1].arg = PyNone
     /\ ConfigFile(env) \notin DOMAIN hist[1].before
     /\ hist[2].kind = "Config" /\ hist[2].arg = PyNone) =>
        /\ hist[2].value = hist[1].value
        /\ hist[2].wrote = {}
        /\ hist[2].after = hist[2].before

\* C6: loading the pool store from a path with no file creates {"proxies": []}
\* at exactly that path, with its parent directories, leaves the store holding
\* the empty pool, and a later load of the same path yields the empty pool too.
C6_MissingPoolFileDefaulted ==
    \A i \in 1..Len(hist) :
        (hist[i].kind = "TorManager" /\ hist[i].arg.parts \notin DOMAIN hist[i].before) =>
            /\ hist[i].wrote = {hist[i].arg.parts}
            /\ DOMAIN hist[i].after = DOMAIN hist[i].before \cup {hist[i].arg.parts}
            /\ hist[i].after[hist[i].arg.parts] = DocEmptyPoolText
            /\ \A q \in DOMAIN hist[i].before : hist[i].after[q] = hist[i].before[q]
            /\ Ancestors(Parent(hist[i].arg.parts)) \subseteq dirs
            /\ hist[i].exc = NoException
            /\ hist[i].value = TorData(PyList(<<>>))
            /\ \A j \in (i + 1)..Len(hist) :
                  (hist[j].kind = "TorManager" /\ hist[j].arg = hist[i].arg) =>
                      /\ hist[j].value = TorData(PyList(<<>>))
                      /\ hist[j].exc = NoException

\* a missing pool file was defaulted and the same path was loaded again
C6_Witness ==
    /\ Len(hist) = 2
    /\ hist[1].kind = "TorManager" /\ hist[2].kind = "TorManager"
    /\ hist[1].arg = hist[2].arg
    /\ hist[1].arg.parts \notin DOMAIN hist[1].before
    /\ hist[1].arg.parts \in DOMAIN files

\* C7: the default configuration file is <B>/heimdall/config.json with B the
\* value of XDG_CONFIG_HOME when set and non-empty and ~/.config otherwise; a
\* default-path load reads that file when it exists and creates it when it
\* does not.
C7_DefaultConfigPath ==
    \A h \in Loads :
        (h.kind = "Config" /\ h.arg = PyNone) =>
            /\ h.wrote \subseteq {DocConfigFile(env)}
            /\ DocConfigFile(env) \in DOMAIN h.after
            /\ DocConfigFile(env) \in DOMAIN h.before => h.wrote = {}

\* C10: no configuration load overwrites a file that already exists: every file
\* present before the load has the same content after it.
C10_ExistingFilesUntouched ==
    \A h \in Loads :
        h.kind = "Config" =>
            \A q \in DOMAIN h.before : h.after[q] = h.before[q]

-----------------------------------------------------------------------------
(* Specification SpecRoundTrip: serialise a value the way the stores        *)
(* persist it, then deserialise the text the way the stores load it.        *)

\* the sequences over S of length at most n
RECURSIVE SeqsUpTo(_, _)
SeqsUpTo(S, n) ==
    IF n = 0 THEN {<<>>}
    ELSE LET shorter == SeqsUpTo(S, n - 1)
         IN  shorter \cup {Append(q, x) : q \in {r \in shorter : Len(r) = n - 1}, x \in S}

ProxyValues ==
    {TorProxyData(PyInt(port), PyInt(control_port), PyPath(PathFromStr(dir_path))) :
        port \in {9050, 9150}, control_port \in {9051, 9151},
        dir_path \in {"/var/lib/tor/a", "/var/lib/tor/b"}}

TorDataValues == {TorData(PyList(q)) : q \in SeqsUpTo(ProxyValues, MaxProxies)}

ConfigDataValues ==
    {ConfigData(path, PyInt(parsers), PyInt(proxies), PyBool(save)) :
        path \in {PyNone, PyPath(PoolFile), PyPath(HomeDir \o <<"pool.json">>)},
        parsers \in {1, 6}, proxies \in {1, 6}, save \in BOOLEAN}

\* json.dump(data.to_dict(), df) followed by TorData.from_dict(json.load(df))
TorDataRoundTrip(x) ==
    LET text == JsonDump(TorDataToDict(x))
    IN  IF IsRaised(text) THEN text
        ELSE LET loaded == JsonLoad(text)
             IN  IF IsRaised(loaded) THEN loaded ELSE TorDataFromDict(loaded)

\* json.dump(config.__dict__, cf) followed by ConfigData.from_dict(json.load(cf))
ConfigDataRoundTrip(e, x) ==
    LET text == JsonDump(ConfigDataDict(x))
    IN  IF IsRaised(text) THEN text
        ELSE LET loaded == JsonLoad(text)
             IN  IF IsRaised(loaded) THEN loaded ELSE ConfigFromDict(e, loaded)

InitRoundTrip ==
    /\ env \in EnvChoices
    /\ files = <<>> /\ dirs = {}
    /\ config = Unset /\ data = Unset
    /\ exc = NoException /\ echoed = <<>> /\ hist = <<>>
    /\ rtIn \in TorDataValues \cup ConfigDataValues
    /\ rtOut = Unset
    /\ pc = Idle /\ cli = Unset /\ exit_code = PyNone
    /\ ppc = NoProcs /\ pstore = NoProcs /\ pkind = Idle

RoundTripTorData ==
    /\ rtIn.t = "TorData" /\ rtOut = Unset
    /\ rtOut' = TorDataRoundTrip(rtIn)
    /\ UNCHANGED <<env, files, dirs, config, data, exc, echoed, hist, rtIn,
                   pc, cli, exit_code, ppc, pstore, pkind>>

RoundTripConfigData ==
    /\ rtIn.t = "ConfigData" /\ rtOut = Unset
    /\ rtOut' = ConfigDataRoundTrip(env, rtIn)
    /\ UNCHANGED <<env, files, dirs, config, data, exc, echoed, hist, rtIn,
                   pc, cli, exit_code, ppc, pstore, pkind>>

NextRoundTrip == RoundTripTorData \/ RoundTripConfigData

SpecRoundTrip == InitRoundTrip /\ [][NextRoundTrip]_vars

\* C4: for every TorData value, pools of two or more entries included,
\* to_dict, the JSON document and from_dict give back an equal TorData: the same
\* entries in the same order, each a TorProxyData with the same three fields.
C4_TorDataRoundTrip ==
    (rtIn.t = "TorData" /\ rtOut # Unset) => rtOut = rtIn

\* C5: for every valid ConfigData value, deserialising its persisted form
\* gives a value equal to it in all four fields.
C5_ConfigDataRoundTrip ==
    (rtIn.t = "ConfigData" /\ rtOut # Unset) => rtOut = rtIn

-----------------------------------------------------------------------------
(* Specification SpecCli: one invocation of the command line,               *)
(* heimdall [--config PATH] [--verbose] [search QUERY].                     *)

NoSubcommand == "<none>"

Invocations ==
    [config : ConfigArgs, verbose : BOOLEAN, subcommand : {"search", NoSubcommand},
     confirmed : {PyNone}]

InitCli ==
    /\ env \in EnvChoices
    /\ files \in InitialFiles
    /\ dirs = DirsOf(files)
    /\ config = Unset /\ data = Unset
    /\ exc = NoException /\ echoed = <<>> /\ hist = <<>>
    /\ rtIn = Unset /\ rtOut = Unset
    /\ pc = "start" /\ cli \in Invocations /\ exit_code = PyNone
    /\ ppc = NoProcs /\ pstore = NoProcs /\ pkind = Idle

\* the options of the group: --config is a click.Path(exists=True,
\* dir_okay=False), so a path that names no file is a usage error (status 2)
\* raised before the group's callback runs
AppOptions ==
    /\ pc = "start"
    /\ IF cli.config # PyNone /\ PathFromStr(cli.config.s) \notin DOMAIN files
       THEN pc' = "exited" /\ exit_code' = PyInt(2)
       ELSE pc' = "confirm" /\ exit_code' = exit_code
    /\ UNCHANGED <<env, files, dirs, config, data, exc, echoed, hist, rtIn, rtOut,
                   cli, ppc, pstore, pkind>>

\* the group's callback app(): banner, disclaimer, click.confirm; declining
\* calls ctx.exit(1); accepting returns, and click then invokes the subcommand
AppCallbackDeclineContinues(answer) ==
    /\ pc = "confirm"
    /\ cli' = [cli EXCEPT !.confirmed = PyBool(answer)]
    /\ IF cli.subcommand = "search"
       THEN pc' = "search" /\ exit_code' = exit_code
       ELSE pc' = "exited" /\ exit_code' = PyInt(0)
    /\ UNCHANGED <<env, files, dirs, config, data, exc, echoed, hist, rtIn, rtOut,
                   ppc, pstore, pkind>>

AppCallback(answer) ==
    /\ pc = "confirm"
    /\ cli' = [cli EXCEPT !.confirmed = PyBool(answer)]
    /\ IF ~answer
       THEN pc' = "exited" /\ exit_code' = PyInt(1)
       ELSE IF cli.subcommand = "search"
       THEN pc' = "search" /\ exit_code' = exit_code
       ELSE pc' = "exited" /\ exit_code' = PyInt(0)
    /\ UNCHANGED <<env, files, dirs, config, data, exc, echoed, hist, rtIn, rtOut,
                   ppc, pstore, pkind>>

\* search(): Controller(ctx, query), whose constructor builds
\* Config(ctx.obj["config_path"], ctx.obj["verbose"])
Search ==
    /\ pc = "search"
    /\ LET r == LoadConfig(env, files, dirs, cli.config, cli.verbose)
       IN  /\ files' = r.files
           /\ dirs' = r.dirs
           /\ config' = r.config
           /\ exc' = r.exc
           /\ echoed' = IF r.config = Unset /\ r.exc = NoException
                        THEN r.echoed
                        ELSE VerboseEcho(cli.verbose, "Initializing the \"Config\" object")
                                 \o r.echoed
           /\ hist' = Append(hist, [kind |-> "Config", arg |-> cli.config,
                                    before |-> files, after |-> r.files,
                                    wrote |-> r.wrote, value |-> r.config,
                                    exc |-> r.exc])
           /\ exit_code' = IF r.exc = NoException THEN PyInt(0) ELSE PyInt(1)
    /\ pc' = "exited"
    /\ UNCHANGED <<env, data, rtIn, rtOut, cli, ppc, pstore, pkind>>

NextCli ==
    \/ AppOptions
    \/ \E answer \in BOOLEAN : AppCallback(answer)
    \/ Search

SpecCli == InitCli /\ [][NextCli]_vars

\* C8: the Controller is constructed, and so a configuration file read or
\* created, only after the prompt was answered yes; once the prompt is declined
\* the process has exited with status 1, no load has happened, and no step
\* taken without a yes changes a file, a directory or the record of loads.
C8_PromptGatesSearch ==
    /\ [](hist # <<>> => cli.confirmed = PyBool(TRUE))
    /\ [](cli.confirmed = PyBool(FALSE) =>
            (pc = "exited" /\ exit_code = PyInt(1) /\ hist = <<>> /\ config = Unset))
    /\ [][(files' # files \/ dirs' # dirs \/ hist' # hist \/ config' # config) =>
            (cli.confirmed = PyBool(TRUE) /\ pc = "search")]_vars

\* the prompt was declined on an invocation of search whose configuration
\* file does not exist, and the file still does not exist
C8_Witness ==
    /\ cli.confirmed = PyBool(FALSE)
    /\ cli.subcommand = "search" /\ cli.config = PyNone
    /\ pc = "exited"
    /\ ConfigFile(env) \notin DOMAIN files

-----------------------------------------------------------------------------
(* Specification SpecRace: concurrent invocations, each constructing the    *)
(* same store over the same initially missing file. The steps of a load     *)
(* are the system calls it makes: the exists() check, mkdir, open("w+")     *)
(* (which creates or truncates), the flush of the dumped document at        *)
(* close, open for reading, and the read that json.load parses.             *)

\* concurrent invocations
NumInvocations == 2

Procs == 1..NumInvocations

\* the file the store of kind k loads
Target(k) == IF k = "Config" THEN ConfigFile(env) ELSE PoolFile

\* the directory created before the default document is written
TargetDir(k) == IF k = "Config" THEN ConfigDir(env) ELSE Parent(PoolFile)

\* the value _generate_config / _generate_data returns
Generated(k) == IF k = "Config" THEN ConfigDataDefault ELSE TorDataDefault

\* the document _generate_config / _generate_data dumps
GeneratedText(k) ==
    IF k = "Config" THEN JsonDump(ConfigDataDict(ConfigDataDefault))
    ELSE JsonDump(TorDataToDict(TorDataDefault))

\* what the store holds after the try/except around from_dict(json.load(f))
Parsed(k, text) ==
    LET loaded == JsonLoad(text)
        made == IF IsRaised(loaded) THEN loaded
                ELSE IF k = "Config" THEN ConfigFromDict(env, loaded)
                ELSE TorDataFromDict(loaded)
    IN  IF IsRaised(made) THEN Unset ELSE made

InitRace ==
    /\ env \in EnvChoices
    /\ pkind \in {"Config", "TorManager"}
    /\ files \in {fs \in InitialFiles : Target(pkind) \notin DOMAIN fs}
    /\ dirs = DirsOf(files)
    /\ config = Unset /\ data = Unset
    /\ exc = NoException /\ echoed = <<>> /\ hist = <<>>
    /\ rtIn = Unset /\ rtOut = Unset
    /\ pc = Idle /\ cli = Unset /\ exit_code = PyNone
    /\ ppc = [p \in Procs |-> "exists"]
    /\ pstore = [p \in Procs |-> Unset]

raceFrame == <<env, config, data, exc, echoed, hist, rtIn, rtOut, pc, cli, exit_code, pkind>>

\* if not path.exists():
CheckExists(p) ==
    /\ ppc[p] = "exists"
    /\ ppc' = [ppc EXCEPT ![p] = IF Exists(files, dirs, Target(pkind))
                                 THEN "open_r" ELSE "mkdir"]
    /\ UNCHANGED <<files, dirs, pstore>> /\ UNCHANGED raceFrame

\* mkdir(parents=True, exist_ok=True)
MakeDirs(p) ==
    /\ ppc[p] = "mkdir"
    /\ dirs' = Mkdir(dirs, TargetDir(pkind))
    /\ ppc' = [ppc EXCEPT ![p] = "open_w"]
    /\ UNCHANGED <<files, pstore>> /\ UNCHANGED raceFrame

\* open("w+"): the file exists and is empty from here on
OpenWrite(p) ==
    /\ ppc[p] = "open_w"
    /\ files' = WriteFile(files, Target(pkind), EmptyText)
    /\ ppc' = [ppc EXCEPT ![p] = "dump"]
    /\ UNCHANGED <<dirs, pstore>> /\ UNCHANGED raceFrame

\* json.dump, close: the buffered document reaches the file from offset 0;
\* the generated value is returned and assigned
DumpAndClose(p) ==
    /\ ppc[p] = "dump"
    /\ files' = WriteFile(files, Target(pkind), GeneratedText(pkind))
    /\ pstore' = [pstore EXCEPT ![p] = Generated(pkind)]
    /\ ppc' = [ppc EXCEPT ![p] = "done"]
    /\ UNCHANGED dirs /\ UNCHANGED raceFrame

\* open("r") / open("r+")
OpenRead(p) ==
    /\ ppc[p] = "open_r"
    /\ ppc' = [ppc EXCEPT ![p] = "read"]
    /\ UNCHANGED <<files, dirs, pstore>> /\ UNCHANGED raceFrame

\* json.load reads what the file holds now; from_dict; JSONDecodeError is caught
ReadAndParse(p) ==
    /\ ppc[p] = "read"
    /\ pstore' = [pstore EXCEPT ![p] = Parsed(pkind, files[Target(pkind)])]
    /\ ppc' = [ppc EXCEPT ![p] = "done"]
    /\ UNCHANGED <<files, dirs>> /\ UNCHANGED raceFrame

NextRace ==
    \E p \in Procs :
        \/ CheckExists(p)
        \/ MakeDirs(p)
        \/ OpenWrite(p)
        \/ DumpAndClose(p)
        \/ OpenRead(p)
        \/ ReadAndParse(p)

SpecRace == InitRace /\ [][NextRace]_vars

\* the default value of a store, whatever tor_data_path it carries
HoldsDefault(k, v) ==
    IF k = "Config"
    THEN /\ v.t = "ConfigData"
         /\ v.count_parsers = PyInt(6) /\ v.count_tor_proxy = PyInt(6)
         /\ v.save_results = PyBool(FALSE)
    ELSE v = TorData(PyList(<<>>))

\* C9: when two invocations load the same store against the same missing file,
\* under every interleaving each one that has finished holds the default value,
\* and once all have finished the file holds exactly the default document.
C9_RaceSafeDefaulting ==
    /\ \A p \in Procs : ppc[p] = "done" => HoldsDefault(pkind, pstore[p])
    /\ (\A p \in Procs : ppc[p] = "done") =>
           files[Target(pkind)] =
               IF pkind = "Config" THEN ConfigDoc(JNull, 6, 6, FALSE) ELSE DocEmptyPoolText

====
